---- MODULE Spec2Model ----
(***************************************************************************)
(* Model of src/guide_generator_flow/crews/research_crew/research_crew.py. *)
(*                                                                         *)
(* The program is declarative wiring: at module load eleven tool objects   *)
(* are instantiated and bound to module globals; ResearchCrew declares     *)
(* five agents, one task and a crew; run(inputs) builds a ResearchCrew,    *)
(* assembles its crew, kicks it off and returns the raw text of the        *)
(* result.  The orchestration framework is external: its constructors and  *)
(* kickoff may fail, and what happens inside kickoff (who holds the task,  *)
(* which attached tool is invoked, what text comes back) is a              *)
(* nondeterministic choice.                                                *)
(***************************************************************************)
EXTENDS Integers, Sequences, FiniteSets, TLC

VARIABLES
    module,        \* "loading" | "loaded" | "import_error"
    modpc,         \* index in ToolDefs of the next tool statement to execute
    globals,       \* module global name -> object id (0: not bound yet)
    heap,          \* object id -> the object created (ids are 1..Len(heap))
    pc,            \* position of the caller / of run
    calls,         \* how many times run has been called
    inputs,        \* run's parameter `inputs`
    self,          \* <<id>> of the ResearchCrew() built by this call, or <<>>
    research_crew, \* run's local `research_crew`: <<crew>> or <<>>
    kickoffArg,    \* <<the dictionary kickoff was invoked with>> or <<>>
    taskHolder,    \* inside kickoff: config name of the agent given the task
    toolLog,       \* inside kickoff: the tool invocations made, in order
    result,        \* run's local `result`: <<[raw |-> text]>> or <<>>
    returned,      \* <<the string run returned to its caller>> or <<>>
    exc,           \* the callee whose exception is in flight, or "none"
    trace,         \* the statements of run executed by the current call
    basesBuilt,    \* every ResearchCrew object built: [id, call], in order
    crewsBuilt     \* every Crew object built: [id, call], in order

vars == <<module, modpc, globals, heap, pc, calls, inputs, self, research_crew,
          kickoffArg, taskHolder, toolLog, result, returned, exc, trace,
          basesBuilt, crewsBuilt>>

modvars == <<module, modpc, globals>>
runvars == <<inputs, self, research_crew, kickoffArg, taskHolder, toolLog,
             result, returned, exc, trace>>

(* ------------------------------ bounds --------------------------------- *)

MaxRuns == 2
MaxToolCalls == 2

(* ------------------------ module-level tools --------------------------- *)

\* The tool statements of the module, in the order the interpreter runs them.
ToolDefs ==
    << [var |-> "yt_video_search_tool",  cls |-> "YoutubeVideoSearchTool",   kwargs |-> {}],
       [var |-> "yt_channel_search_tool", cls |-> "YoutubeChannelSearchTool", kwargs |-> {}],
       [var |-> "web_scraping_tool",      cls |-> "ScrapeWebsiteTool",        kwargs |-> {}],
       [var |-> "selenium_scraping_tool", cls |-> "SeleniumScrapingTool",     kwargs |-> {}],
       [var |-> "code_docs_search_tool",  cls |-> "CodeDocsSearchTool",       kwargs |-> {}],
       [var |-> "arxiv_tool",             cls |-> "ArxivPaperTool",
            kwargs |-> {"download_pdfs=True", "use_title_as_filename=True"}],
       [var |-> "file_reader_tool",       cls |-> "FileReadTool",             kwargs |-> {}],
       [var |-> "pdf_search_tool",        cls |-> "PDFSearchTool",            kwargs |-> {}],
       [var |-> "text_search_tool",       cls |-> "TXTSearchTool",            kwargs |-> {}],
       [var |-> "md_search_tool",         cls |-> "MDXSearchTool",            kwargs |-> {}],
       [var |-> "directory_read_tool",    cls |-> "DirectoryReadTool",        kwargs |-> {}] >>

ToolVars == {ToolDefs[i].var : i \in 1..Len(ToolDefs)}

\* The classes of the objects a list of object ids refers to.
ClassesOf(ids) == [i \in 1..Len(ids) |-> heap[ids[i]].cls]

Range(s) == {s[i] : i \in 1..Len(s)}

(* ------------------------------ inputs --------------------------------- *)

InputKeys == {"youtube_links", "webpage_links", "research_paper_links", "document_paths"}

\* The dictionary the __main__ block passes.
MainInputs ==
    [k \in InputKeys |->
        IF k = "document_paths" THEN "docs/document-export-24-09-2025-11_58_50.txt" ELSE ""]

\* dict[str, str] over the four keys; each value empty or a link/path. The
\* callers enumerated vary the video links and the document paths.
InputValues == {"", "docs/document-export-24-09-2025-11_58_50.txt"}
InputDicts ==
    {d \in [InputKeys -> InputValues] :
        d["webpage_links"] = "" /\ d["research_paper_links"] = ""}

\* The free text an external kickoff may come back with.
RawTexts == {"report A", "report B"}

(* ------------------------------ agents --------------------------------- *)

research_manager ==
    [config |-> "research_manager", tools |-> << >>]

youtube_specialist ==
    [config |-> "youtube_specialist",
     tools  |-> << globals["yt_video_search_tool"],
                   globals["yt_channel_search_tool"] >>]

\* Mutant: the web specialist without the code-docs search tool.
web_specialist_NoCodeDocs ==
    [config |-> "web_specialist",
     tools  |-> << globals["web_scraping_tool"],
                   globals["selenium_scraping_tool"] >>]

web_specialist ==
    [config |-> "web_specialist",
     tools  |-> << globals["web_scraping_tool"],
                   globals["selenium_scraping_tool"],
                   globals["code_docs_search_tool"] >>]

arxiv_specialist ==
    [config |-> "arxiv_specialist",
     tools  |-> << globals["arxiv_tool"] >>]

\* Mutant: the document specialist is also handed the web scraping tool.
document_specialist_SharedScraper ==
    [config |-> "document_specialist",
     tools  |-> << globals["file_reader_tool"],
                   globals["pdf_search_tool"],
                   globals["text_search_tool"],
                   globals["md_search_tool"],
                   globals["directory_read_tool"],
                   globals["web_scraping_tool"] >>]

document_specialist ==
    [config |-> "document_specialist",
     tools  |-> << globals["file_reader_tool"],
                   globals["pdf_search_tool"],
                   globals["text_search_tool"],
                   globals["md_search_tool"],
                   globals["directory_read_tool"] >>]

(* ------------------------------- task ---------------------------------- *)

\* Task(config=...) names no agent.
research_compilation ==
    [config |-> "research_compilation", agent |-> "none"]

(* ------------------------------- crew ---------------------------------- *)

\* Mutant: the crew is given every declared agent, the manager included.
crew_AllDeclaredAgents ==
    [agents        |-> << research_manager, youtube_specialist, arxiv_specialist,
                          web_specialist, document_specialist >>,
     tasks         |-> << research_compilation >>,
     verbose       |-> TRUE,
     process       |-> "hierarchical",
     planning      |-> TRUE,
     manager_agent |-> research_manager]

\* Mutant: a sequential crew whose task is bound to a specialist.
crew_SequentialBoundTask ==
    [agents        |-> << youtube_specialist, arxiv_specialist,
                          web_specialist, document_specialist >>,
     tasks         |-> << [config |-> "research_compilation",
                           agent  |-> "youtube_specialist"] >>,
     verbose       |-> TRUE,
     process       |-> "sequential",
     planning      |-> TRUE,
     manager_agent |-> research_manager]

crew ==
    [agents        |-> << youtube_specialist, arxiv_specialist,
                          web_specialist, document_specialist >>,
     tasks         |-> << research_compilation >>,
     verbose       |-> TRUE,
     process       |-> "hierarchical",
     planning      |-> TRUE,
     manager_agent |-> research_manager]

(* ------------------------------- Init ---------------------------------- *)

Init ==
    /\ module = "loading"
    /\ modpc = 1
    /\ globals = [v \in ToolVars |-> 0]
    /\ heap = << >>
    /\ pc = "idle"
    /\ calls = 0
    /\ inputs = MainInputs
    /\ self = << >>
    /\ research_crew = << >>
    /\ kickoffArg = << >>
    /\ taskHolder = "none"
    /\ toolLog = << >>
    /\ result = << >>
    /\ returned = << >>
    /\ exc = "none"
    /\ trace = << >>
    /\ basesBuilt = << >>
    /\ crewsBuilt = << >>

(* --------------------------- module load ------------------------------- *)

\* One tool statement: instantiate the tool, bind the global.
LoadTool ==
    /\ module = "loading"
    /\ modpc <= Len(ToolDefs)
    /\ heap' = Append(heap, [cls |-> ToolDefs[modpc].cls, kwargs |-> ToolDefs[modpc].kwargs])
    /\ globals' = [globals EXCEPT ![ToolDefs[modpc].var] = Len(heap) + 1]
    /\ modpc' = modpc + 1
    /\ UNCHANGED <<module, pc, calls, basesBuilt, crewsBuilt>>
    /\ UNCHANGED runvars

\* A tool constructor raises: the import fails and nothing of the module is usable.
LoadToolFail ==
    /\ module = "loading"
    /\ modpc <= Len(ToolDefs)
    /\ module' = "import_error"
    /\ UNCHANGED <<modpc, globals, heap, pc, calls, basesBuilt, crewsBuilt>>
    /\ UNCHANGED runvars

\* The class and def statements: ResearchCrew and run now exist.
DefineCrewAndRun ==
    /\ module = "loading"
    /\ modpc = Len(ToolDefs) + 1
    /\ module' = "loaded"
    /\ UNCHANGED <<modpc, globals, heap, pc, calls, basesBuilt, crewsBuilt>>
    /\ UNCHANGED runvars

(* -------------------------------- run ---------------------------------- *)

\* A caller (the __main__ block, or an importer) calls run(inp).
CallRun(inp) ==
    /\ module = "loaded"
    /\ pc \in {"idle", "returned", "raised"}
    /\ calls < MaxRuns
    /\ calls' = calls + 1
    /\ inputs' = inp
    /\ pc' = "entered"
    /\ self' = << >>
    /\ research_crew' = << >>
    /\ kickoffArg' = << >>
    /\ taskHolder' = "none"
    /\ toolLog' = << >>
    /\ result' = << >>
    /\ returned' = << >>
    /\ exc' = "none"
    /\ trace' = << >>
    /\ UNCHANGED <<heap, basesBuilt, crewsBuilt>>
    /\ UNCHANGED modvars

\* ResearchCrew()
RunConstruct ==
    /\ pc = "entered"
    /\ heap' = Append(heap, [cls |-> "ResearchCrew", kwargs |-> {}])
    /\ self' = << Len(heap) + 1 >>
    /\ basesBuilt' = Append(basesBuilt, [id |-> Len(heap) + 1, call |-> calls])
    /\ trace' = Append(trace, "ResearchCrew")
    /\ pc' = "constructed"
    /\ UNCHANGED <<calls, inputs, research_crew, kickoffArg, taskHolder, toolLog,
                   result, returned, exc, crewsBuilt>>
    /\ UNCHANGED modvars

\* ResearchCrew() raises; run has no handler.
RunConstructFail ==
    /\ pc = "entered"
    /\ trace' = Append(trace, "ResearchCrew")
    /\ exc' = "ResearchCrew"
    /\ pc' = "raised"
    /\ UNCHANGED <<heap, calls, inputs, self, research_crew, kickoffArg, taskHolder,
                   toolLog, result, returned, basesBuilt, crewsBuilt>>
    /\ UNCHANGED modvars

\* Mutant: assembling the crew instantiates a tool of its own and rebinds the global.
RunAssemble_FreshTool ==
    /\ pc = "constructed"
    /\ heap' = heap \o << [cls |-> "YoutubeVideoSearchTool", kwargs |-> {}],
                          [cls |-> "Crew", kwargs |-> {}] >>
    /\ globals' = [globals EXCEPT !["yt_video_search_tool"] = Len(heap) + 1]
    /\ research_crew' = << crew >>
    /\ crewsBuilt' = Append(crewsBuilt, [id |-> Len(heap) + 2, call |-> calls])
    /\ trace' = Append(trace, "crew")
    /\ pc' = "assembled"
    /\ UNCHANGED <<module, modpc, calls, inputs, self, kickoffArg, taskHolder, toolLog,
                   result, returned, exc, basesBuilt>>

\* .crew()
RunAssemble ==
    /\ pc = "constructed"
    /\ heap' = Append(heap, [cls |-> "Crew", kwargs |-> {}])
    /\ research_crew' = << crew >>
    /\ crewsBuilt' = Append(crewsBuilt, [id |-> Len(heap) + 1, call |-> calls])
    /\ trace' = Append(trace, "crew")
    /\ pc' = "assembled"
    /\ UNCHANGED <<calls, inputs, self, kickoffArg, taskHolder, toolLog,
                   result, returned, exc, basesBuilt>>
    /\ UNCHANGED modvars

\* .crew() raises; run has no handler.
RunAssembleFail ==
    /\ pc = "constructed"
    /\ trace' = Append(trace, "crew")
    /\ exc' = "crew"
    /\ pc' = "raised"
    /\ UNCHANGED <<heap, calls, inputs, self, research_crew, kickoffArg, taskHolder,
                   toolLog, result, returned, basesBuilt, crewsBuilt>>
    /\ UNCHANGED modvars

\* Mutant: kickoff is handed a copy of the dictionary without its empty entries.
RunKickoff_DropsEmpty ==
    /\ pc = "assembled"
    /\ kickoffArg' = << [k \in {x \in DOMAIN inputs : inputs[x] # ""} |-> inputs[k]] >>
    /\ trace' = Append(trace, "kickoff")
    /\ pc' = "kickoff"
    /\ UNCHANGED <<heap, calls, inputs, self, research_crew, taskHolder, toolLog,
                   result, returned, exc, basesBuilt, crewsBuilt>>
    /\ UNCHANGED modvars

\* research_crew.kickoff(inputs) is invoked.
RunKickoff ==
    /\ pc = "assembled"
    /\ kickoffArg' = << inputs >>
    /\ trace' = Append(trace, "kickoff")
    /\ pc' = "kickoff"
    /\ UNCHANGED <<heap, calls, inputs, self, research_crew, taskHolder, toolLog,
                   result, returned, exc, basesBuilt, crewsBuilt>>
    /\ UNCHANGED modvars

\* Inside kickoff: the framework hands the crew's task to an agent. Under the
\* hierarchical process that is the manager agent; otherwise the task's own agent.
FrameworkAssign ==
    /\ pc = "kickoff"
    /\ taskHolder = "none"
    /\ LET c == research_crew[1]
           to == IF c.process = "hierarchical"
                 THEN c.manager_agent.config
                 ELSE c.tasks[1].agent
       IN  /\ to # "none"
           /\ taskHolder' = to
    /\ UNCHANGED <<heap, pc, calls, inputs, self, research_crew, kickoffArg, toolLog,
                   result, returned, exc, trace, basesBuilt, crewsBuilt>>
    /\ UNCHANGED modvars

\* Who may be working inside kickoff: under the hierarchical process the manager
\* and, by its delegation, the crew's agents; otherwise the agent holding the task.
Workers ==
    LET c == research_crew[1]
    IN  IF c.process = "hierarchical"
        THEN IF taskHolder = c.manager_agent.config
             THEN {c.manager_agent} \cup Range(c.agents)
             ELSE {}
        ELSE {a \in Range(c.agents) : a.config = c.tasks[1].agent}

\* Inside kickoff: a working agent invokes one of the tools attached to it.
FrameworkToolCall ==
    /\ pc = "kickoff"
    /\ Len(toolLog) < MaxToolCalls
    /\ \E a \in Workers : \E i \in 1..Len(a.tools) :
          toolLog' = Append(toolLog, [agent |-> a.config, tool |-> a.tools[i]])
    /\ UNCHANGED <<heap, pc, calls, inputs, self, research_crew, kickoffArg, taskHolder,
                   result, returned, exc, trace, basesBuilt, crewsBuilt>>
    /\ UNCHANGED modvars

\* kickoff comes back with a result object.
KickoffReturn(raw) ==
    /\ pc = "kickoff"
    /\ taskHolder # "none"
    /\ result' = << [raw |-> raw] >>
    /\ pc' = "kicked"
    /\ UNCHANGED <<heap, calls, inputs, self, research_crew, kickoffArg, taskHolder,
                   toolLog, returned, exc, trace, basesBuilt, crewsBuilt>>
    /\ UNCHANGED modvars

\* Mutant: run catches the failure of kickoff and tries kickoff again.
KickoffFail_Retry ==
    /\ pc = "kickoff"
    /\ exc' = "kickoff"
    /\ pc' = "assembled"
    /\ taskHolder' = "none"
    /\ UNCHANGED <<heap, calls, inputs, self, research_crew, kickoffArg,
                   toolLog, result, returned, trace, basesBuilt, crewsBuilt>>
    /\ UNCHANGED modvars

\* kickoff raises; run has no handler.
KickoffFail ==
    /\ pc = "kickoff"
    /\ exc' = "kickoff"
    /\ pc' = "raised"
    /\ UNCHANGED <<heap, calls, inputs, self, research_crew, kickoffArg, taskHolder,
                   toolLog, result, returned, trace, basesBuilt, crewsBuilt>>
    /\ UNCHANGED modvars

\* return result.raw
RunReturn ==
    /\ pc = "kicked"
    /\ returned' = << result[1].raw >>
    /\ trace' = Append(trace, "return")
    /\ pc' = "returned"
    /\ UNCHANGED <<heap, calls, inputs, self, research_crew, kickoffArg, taskHolder,
                   toolLog, result, exc, basesBuilt, crewsBuilt>>
    /\ UNCHANGED modvars

Next ==
    \/ LoadTool
    \/ LoadToolFail
    \/ DefineCrewAndRun
    \/ \E inp \in InputDicts : CallRun(inp)
    \/ RunConstruct
    \/ RunConstructFail
    \/ RunAssemble
    \/ RunAssembleFail
    \/ RunKickoff
    \/ FrameworkAssign
    \/ FrameworkToolCall
    \/ \E raw \in RawTexts : KickoffReturn(raw)
    \/ KickoffFail
    \/ RunReturn

Spec == Init /\ [][Next]_vars

(* ------------------------------ helpers -------------------------------- *)

IsPrefix(s, t) == Len(s) <= Len(t) /\ \A i \in 1..Len(s) : s[i] = t[i]

NoDuplicates(s) == \A i, j \in 1..Len(s) : s[i] = s[j] => i = j

\* The statements of run, in program order.
RunSteps == << "ResearchCrew", "crew", "kickoff", "return" >>

SpecialistConfigs ==
    {"youtube_specialist", "arxiv_specialist", "web_specialist", "document_specialist"}

ToolClasses == {ToolDefs[i].cls : i \in 1..Len(ToolDefs)}

\* The ids of the tool objects on the heap.
ToolObjects == {i \in 1..Len(heap) : heap[i].cls \in ToolClasses}

\* The classes of the tools attached to an agent, as a set.
ToolClassSet(a) == Range(ClassesOf(a.tools))

\* The object ids of a list of built objects.
BuiltIds(b) == [i \in 1..Len(b) |-> b[i].id]

\* Every agent of a crew: its workers, then its manager.
AllAgents(c) == c.agents \o << c.manager_agent >>

(* ------------------------------- claims -------------------------------- *)

\* C1: the crew returned by ResearchCrew.crew() has research_manager as its
\* manager agent and exactly the four specialists as its worker agents; the
\* manager is never a member of the worker agent list.
C1_ManagerAndFourWorkers ==
    research_crew # << >> =>
        LET c == research_crew[1]
        IN  /\ c.manager_agent.config = "research_manager"
            /\ Len(c.agents) = 4
            /\ {c.agents[i].config : i \in 1..Len(c.agents)} = SpecialistConfigs
            /\ \A i \in 1..Len(c.agents) :
                  /\ c.agents[i] # c.manager_agent
                  /\ c.agents[i].config # c.manager_agent.config

C1_Witness ==
    /\ pc = "assembled"
    /\ research_crew # << >>
    /\ Len(research_crew[1].agents) = 4

\* C2: in every call run(inputs) the steps happen in program order and each at
\* most once (exactly once when the call returns): ResearchCrew is built and
\* its crew assembled, then kickoff is invoked on that crew with the caller's
\* dictionary unmodified, then the raw text of the kickoff result is returned;
\* nothing is returned before kickoff has completed.
C2_RunOrder ==
    /\ IsPrefix(trace, RunSteps)
    /\ kickoffArg # << >> =>
          /\ kickoffArg[1] = inputs
          /\ self # << >>
          /\ research_crew # << >>
          /\ Len(trace) >= 3
    /\ result # << >> => kickoffArg # << >>
    /\ returned # << >> =>
          /\ pc = "returned"
          /\ result # << >>
          /\ returned[1] = result[1].raw
          /\ trace = RunSteps
    /\ pc = "returned" => returned # << >>

C2_Witness ==
    /\ pc = "returned"
    /\ calls = 2
    /\ returned = << "report B" >>
    /\ kickoffArg = << MainInputs >>

\* C3: each specialist is constructed with exactly the tools of its speciality
\* and the research_manager with none.
C3_ToolsPerAgent ==
    module = "loaded" =>
        /\ research_manager.tools = << >>
        /\ Len(youtube_specialist.tools) = 2
        /\ ToolClassSet(youtube_specialist) =
              {"YoutubeVideoSearchTool", "YoutubeChannelSearchTool"}
        /\ Len(web_specialist.tools) = 3
        /\ ToolClassSet(web_specialist) =
              {"ScrapeWebsiteTool", "SeleniumScrapingTool", "CodeDocsSearchTool"}
        /\ Len(arxiv_specialist.tools) = 1
        /\ ToolClassSet(arxiv_specialist) = {"ArxivPaperTool"}
        /\ Len(document_specialist.tools) = 5
        /\ ToolClassSet(document_specialist) =
              {"FileReadTool", "PDFSearchTool", "TXTSearchTool", "MDXSearchTool",
               "DirectoryReadTool"}
        /\ research_crew # << >> =>
              /\ research_crew[1].manager_agent = research_manager
              /\ research_crew[1].agents =
                    << youtube_specialist, arxiv_specialist,
                       web_specialist, document_specialist >>

C3_Witness ==
    /\ module = "loaded"
    /\ research_crew # << >>
    /\ \E i \in 1..Len(toolLog) : heap[toolLog[i].tool].cls = "CodeDocsSearchTool"

\* C4: run handles no error: when crew construction or kickoff fails, the
\* failure reaches run's caller, no step is retried and nothing is returned.
C4_FailurePropagates ==
    /\ exc # "none" =>
          /\ pc = "raised"
          /\ returned = << >>
          /\ NoDuplicates(trace)
          /\ trace # << >>
          /\ trace[Len(trace)] = exc
    /\ pc = "raised" => exc # "none"

C4_Witness ==
    /\ pc = "raised"
    /\ exc = "kickoff"
    /\ toolLog # << >>

\* C5: the crew is always assembled with the hierarchical process, planning
\* enabled and exactly one task, research_compilation, bound to no agent; a
\* specialist works only after the manager has been given that task.
C5_HierarchicalSingleTask ==
    /\ research_crew # << >> =>
          LET c == research_crew[1]
          IN  /\ c.process = "hierarchical"
              /\ c.planning = TRUE
              /\ Len(c.tasks) = 1
              /\ c.tasks[1].config = "research_compilation"
              /\ c.tasks[1].agent = "none"
    /\ toolLog # << >> =>
          /\ research_crew # << >>
          /\ taskHolder = "research_manager"
          /\ \A i \in 1..Len(toolLog) : toolLog[i].agent \in SpecialistConfigs

C5_Witness ==
    /\ pc = "kickoff"
    /\ taskHolder = "research_manager"
    /\ Len(toolLog) = 2
    /\ toolLog[1].agent # toolLog[2].agent

\* C6: the tool sets of the agents are pairwise disjoint, so every tool
\* invocation identifies the single specialist that can have made it.
C6_DisjointToolSets ==
    research_crew # << >> =>
        LET as == AllAgents(research_crew[1])
        IN  /\ \A i, j \in 1..Len(as) :
                  i # j => Range(as[i].tools) \cap Range(as[j].tools) = {}
            /\ \A k \in 1..Len(toolLog) :
                  LET holders == {i \in 1..Len(as) : toolLog[k].tool \in Range(as[i].tools)}
                  IN  /\ Cardinality(holders) = 1
                      /\ \A i \in holders :
                            /\ as[i].config = toolLog[k].agent
                            /\ as[i].config \in SpecialistConfigs

C6_Witness ==
    /\ research_crew # << >>
    /\ Len(toolLog) = 2
    /\ toolLog[1].agent = "document_specialist"
    /\ toolLog[2].agent = "web_specialist"

\* C7 (state part): the eleven tools exist before any ResearchCrew or Crew
\* object does, every call builds a ResearchCrew and a Crew of its own, and
\* every crew holds exactly the eleven module-level tool instances.
C7_ToolsBeforeCrews ==
    /\ (basesBuilt # << >> \/ crewsBuilt # << >>) =>
          /\ module = "loaded"
          /\ \A v \in ToolVars : globals[v] \in ToolObjects
          /\ Cardinality({globals[v] : v \in ToolVars}) = 11
          /\ \A t \in ToolObjects : \A b \in Range(basesBuilt) \cup Range(crewsBuilt) : t < b.id
    /\ NoDuplicates(BuiltIds(basesBuilt) \o BuiltIds(crewsBuilt))
    /\ \A i \in 1..Len(basesBuilt) : heap[basesBuilt[i].id].cls = "ResearchCrew"
    /\ \A i \in 1..Len(crewsBuilt) : heap[crewsBuilt[i].id].cls = "Crew"
    /\ \A i, j \in 1..Len(basesBuilt) : i < j => basesBuilt[i].call < basesBuilt[j].call
    /\ \A i, j \in 1..Len(crewsBuilt) : i < j => crewsBuilt[i].call < crewsBuilt[j].call
    /\ self # << >> =>
          basesBuilt[Len(basesBuilt)] = [id |-> self[1], call |-> calls]
    /\ research_crew # << >> =>
          /\ crewsBuilt # << >>
          /\ crewsBuilt[Len(crewsBuilt)].call = calls
          /\ UNION {Range(research_crew[1].agents[i].tools) :
                       i \in 1..Len(research_crew[1].agents)}
                = {globals[v] : v \in ToolVars}

\* C7 (frame part): once the module is loaded no step creates, replaces or
\* removes a tool instance.
C7_ToolsFrame ==
    module = "loaded" =>
        /\ globals' = globals
        /\ ToolObjects' = ToolObjects
        /\ \A t \in ToolObjects : heap'[t] = heap[t]

\* C7: tool objects are created once, at module load, before any crew exists;
\* each run call builds a new ResearchCrew and crew while the same eleven tool
\* instances are reused, and run never creates, replaces or removes one.
C7_ToolsCreatedOnce == [](C7_ToolsBeforeCrews) /\ [][C7_ToolsFrame]_vars

C7_Witness ==
    /\ calls = 2
    /\ Len(crewsBuilt) = 2
    /\ crewsBuilt[1].id # crewsBuilt[2].id
    /\ pc = "returned"

====
